---------------------------- MODULE Spec2Model ----------------------------
(***************************************************************************)
(* Model of the assembly selector of the explain service:                  *)
(* Prompt.select_important_assembly (src/app/prompt.py), which is also     *)
(* kept as a module function in src/app/explain.py.                         *)
(*                                                                         *)
(* Python values are modelled as follows.                                  *)
(*   - a str is a sequence of one-character strings, so that strip(),      *)
(*     startswith() and the f-string of the omission marker are computed;  *)
(*   - an optional value is <<>> for None and <<v>> for v;                 *)
(*   - a list is a sequence, indexed from 0 through At;                    *)
(*   - a dict[str, int] is the sequence of its (key, value) items in       *)
(*     insertion order, which is the order items() iterates in;            *)
(*   - a set of int is a set.                                              *)
(***************************************************************************)
EXTENDS Integers, Sequences, FiniteSets

(***************************************************************************)
(* Bounds of the checked input space.                                      *)
(***************************************************************************)
MaxLen == 5
MaxMarks == 2
MaxNegBudget == 1
MaxBudget == 3

\* slack of the checked request lengths around MAX_ASSEMBLY_LINES
LenSlack == 1

\* The default max_lines of the selector and the threshold of
\* prepare_structured_data.  The program sets it to 300; the requests checked
\* here are scaled down with it, so it is a bound of the model.
MAX_ASSEMBLY_LINES == 3

VARIABLES asm_array, label_definitions, max_lines, pc,
          important_indices, all_indices, selected_assembly, origin,
          request, structured_data,
          calls, frames,
          cache, provider_calls, history

\* the locals of select_important_assembly
selectVars == <<asm_array, label_definitions, max_lines,
                important_indices, all_indices, selected_assembly, origin>>

\* the request being prepared and the result of prepare_structured_data
requestVars == <<request, structured_data>>

\* concurrent invocations of the selector: each call's arguments, position
\* and return value, and the locals of each invocation
threadVars == <<calls, frames>>

\* the cache provider's store, the calls made to the provider, and the calls
\* made to get_cached_response and cache_response with their results
cacheVars == <<cache, provider_calls, history>>

vars == <<asm_array, label_definitions, max_lines, pc,
          important_indices, all_indices, selected_assembly, origin,
          request, structured_data, calls, frames,
          cache, provider_calls, history>>

\* no concurrent invocation and no cache in use
NoThreads == calls = <<>> /\ frames = <<>>
NoCache == cache = <<>> /\ provider_calls = <<>> /\ history = <<>>

Min(a, b) == IF a < b THEN a ELSE b
Max(a, b) == IF a > b THEN a ELSE b

\* list[i] with Python's 0-based index
At(list, i) == list[i + 1]

\* range(a, b)
Range(a, b) == a .. (b - 1)

-----------------------------------------------------------------------------
(***************************************************************************)
(* Strings.                                                                *)
(***************************************************************************)
Digit(d) ==
  CASE d = 0 -> "0" [] d = 1 -> "1" [] d = 2 -> "2" [] d = 3 -> "3"
    [] d = 4 -> "4" [] d = 5 -> "5" [] d = 6 -> "6" [] d = 7 -> "7"
    [] d = 8 -> "8" [] d = 9 -> "9"

RECURSIVE NatToStr(_)
NatToStr(n) == IF n < 10 THEN <<Digit(n)>>
               ELSE NatToStr(n \div 10) \o <<Digit(n % 10)>>

\* str(n) as the f-string formats an int
IntToStr(n) == IF n < 0 THEN <<"-">> \o NatToStr(0 - n) ELSE NatToStr(n)

Whitespace == {" ", "\t", "\n"}

RECURSIVE LStrip(_)
LStrip(s) == IF s # <<>> /\ Head(s) \in Whitespace THEN LStrip(Tail(s)) ELSE s

RECURSIVE RStrip(_)
RStrip(s) == IF s # <<>> /\ s[Len(s)] \in Whitespace
             THEN RStrip(SubSeq(s, 1, Len(s) - 1)) ELSE s

\* str.strip()
Strip(s) == RStrip(LStrip(s))

\* str.startswith(prefix)
StartsWith(s, prefix) ==
  Len(s) >= Len(prefix) /\ SubSeq(s, 1, Len(prefix)) = prefix

S_ret == <<"r", "e", "t">>
S_leave == <<"l", "e", "a", "v", "e">>
S_pop_rbp == <<"p", "o", "p", " ", "r", "b", "p">>
S_ret_sp == <<"r", "e", "t", " ">>
S_nop == <<"n", "o", "p">>
S_mov == <<"m", "o", "v">>
S_retq == <<"r", "e", "t", "q">>
S_ret_8_padded == <<" ", " ", "r", "e", "t", " ", "8", " ">>

MarkerPrefix == <<".", ".", ".", " ", "(">>
MarkerSuffix == <<" ", "l", "i", "n", "e", "s", " ", "o", "m", "i", "t", "t",
                  "e", "d", ")", " ", ".", ".", ".">>

\* f"... ({count} lines omitted) ..."
MarkerText(count) == MarkerPrefix \o IntToStr(count) \o MarkerSuffix

\* the dict appended for an omitted run
OmissionMarker(count) == [text |-> MarkerText(count), isOmissionMarker |-> <<TRUE>>]


-----------------------------------------------------------------------------
(***************************************************************************)
(* Assembly lines: AssemblyItem.model_dump() of src/app/explain_api.py.    *)
(***************************************************************************)
SourceMapping(line) == [file |-> <<>>, line |-> line, column |-> <<>>]

AssemblyItem(text, source) ==
  [text |-> text, source |-> source, labels |-> <<>>, isOmissionMarker |-> <<>>]

PlainLine == AssemblyItem(S_nop, <<>>)

\* the lines that differ from PlainLine in the checked inputs: a
\* source-mapped line, returns, and a text that only resembles a return
SpecialLines ==
  { AssemblyItem(S_mov, <<SourceMapping(<<0>>)>>),
    AssemblyItem(S_ret, <<>>),
    AssemblyItem(S_ret_8_padded, <<>>),
    AssemblyItem(S_retq, <<>>) }

LineKinds == {PlainLine} \cup SpecialLines

\* lists of n lines whose special lines are at the positions in P
AsmArraysAt(n, P) ==
  { [k \in 1..n |-> IF k \in P THEN f[k] ELSE PlainLine] : f \in [P -> SpecialLines] }

\* lists of n lines of which exactly m are special
AsmArrays(n, m) ==
  UNION { AsmArraysAt(n, P) : P \in {Q \in SUBSET (1..n) : Cardinality(Q) = m} }

LabelNames == <<"f", "g", "h", "k">>

\* label maps of exactly l entries for a list of n lines, with valid indices
\* and the invalid ones -1 and n
LabelMaps(l, n) ==
  { [k \in 1..l |-> <<LabelNames[k], v[k]>>] : v \in [1..l -> (-1)..n] }

\* the checked (asm_array, label_definitions) pairs: at most MaxLen lines,
\* and at most MaxMarks special lines and label definitions together
Inputs ==
  UNION { UNION { UNION { AsmArrays(n, m) \X LabelMaps(l, n) : l \in 0..(MaxMarks - m) }
                  : m \in 0..MaxMarks }
          : n \in 0..MaxLen }

Budgets == (0 - MaxNegBudget)..MaxBudget

-----------------------------------------------------------------------------
(***************************************************************************)
(* select_important_assembly, statement by statement.                      *)
(***************************************************************************)

\* LabelBlock with the block starting after the label line
LabelBlock_AfterLabel(line_idx, n) ==
  IF 0 <= line_idx /\ line_idx < n
  THEN Range(line_idx + 1, Min(line_idx + 5, n))
  ELSE {}

\* LabelBlock without the lower bound of the guard
LabelBlock_NoLowerBound(line_idx, n) ==
  IF line_idx < n
  THEN Range(line_idx, Min(line_idx + 5, n))
  ELSE {}

\* for i in range(line_idx, min(line_idx + 5, len(asm_array))), under the
\* guard 0 <= line_idx < len(asm_array)
LabelBlock(line_idx, n) ==
  IF 0 <= line_idx /\ line_idx < n
  THEN Range(line_idx, Min(line_idx + 5, n))
  ELSE {}

\* MarkLabels with each label's block replacing the set instead of joining it
RECURSIVE MarkLabels_Overwrites(_, _, _)
MarkLabels_Overwrites(items, n, important) ==
  IF items = <<>> THEN important
  ELSE MarkLabels_Overwrites(Tail(items), n, LabelBlock(Head(items)[2], n))

\* for _label, line_idx in label_definitions.items(): ...  Every value is an
\* int (dict[str, int]), so the guard reduces to the range test of LabelBlock.
RECURSIVE MarkLabels(_, _, _)
MarkLabels(items, n, important) ==
  IF items = <<>> THEN important
  ELSE MarkLabels(Tail(items), n, important \cup LabelBlock(Head(items)[2], n))

\* the source-mapping test of the line loop: source is not None and its
\* "line" is not None (a dumped SourceMapping is a non-empty dict, so it is
\* truthy whatever its line number, 0 included)
HasSourceLine(asm_item) ==
  /\ asm_item.source # <<>>
  /\ asm_item.source[1].line # <<>>

\* IsReturn without leave among the epilogue texts
IsReturn_NoLeave(asm_item) ==
  LET text == Strip(asm_item.text)
  IN  \/ text \in {S_ret, S_pop_rbp}
      \/ StartsWith(text, S_ret_sp)

\* the return/epilogue test of the line loop
IsReturn(asm_item) ==
  LET text == Strip(asm_item.text)
  IN  \/ text \in {S_ret, S_leave, S_pop_rbp}
      \/ StartsWith(text, S_ret_sp)

\* EpilogueBlock ending before the return line
EpilogueBlock_BeforeReturn(idx) == Range(Max(0, idx - 3), idx)

\* for i in range(max(0, idx - 3), idx + 1)
EpilogueBlock(idx) == Range(Max(0, idx - 3), idx + 1)

\* MarkLines without the source-mapping test
RECURSIVE MarkLines_NoSource(_, _, _)
MarkLines_NoSource(asm, idx, important) ==
  IF idx >= Len(asm) THEN important
  ELSE LET asm_item == At(asm, idx)
           withReturn == IF IsReturn(asm_item) THEN EpilogueBlock(idx) ELSE {}
       IN  MarkLines_NoSource(asm, idx + 1, important \cup withReturn)

\* for idx, asm_item in enumerate(asm_array): ...  Every item is a dict with
\* a "text" key, so the loop's "continue" is never taken.
RECURSIVE MarkLines(_, _, _)
MarkLines(asm, idx, important) ==
  IF idx >= Len(asm) THEN important
  ELSE LET asm_item == At(asm, idx)
           withSource == IF HasSourceLine(asm_item) THEN {idx} ELSE {}
           withReturn == IF IsReturn(asm_item) THEN EpilogueBlock(idx) ELSE {}
       IN  MarkLines(asm, idx + 1, important \cup withSource \cup withReturn)

\* important_indices after both marking loops
ImportantIndices(asm, items) ==
  MarkLines(asm, 0, MarkLabels(items, Len(asm), {}))

\* ContextWindow reaching one line on each side only
ContextWindow_Narrow(idx, n) == Range(Max(0, idx - 1), Min(n, idx + 2))

\* for i in range(max(0, idx - 2), min(len(asm_array), idx + 3))
ContextWindow(idx, n) == Range(Max(0, idx - 2), Min(n, idx + 3))

\* for idx in important_indices: ..., iterating in the order given
RECURSIVE AddContext(_, _, _)
AddContext(order, n, context) ==
  IF order = <<>> THEN context
  ELSE AddContext(Tail(order), n, context \cup ContextWindow(Head(order), n))

\* Sorted in descending order
RECURSIVE Sorted_Descending(_)
Sorted_Descending(s) ==
  IF s = {} THEN <<>>
  ELSE LET m == CHOOSE x \in s : \A y \in s : x >= y
       IN  <<m>> \o Sorted_Descending(s \ {m})

\* sorted(s)
RECURSIVE Sorted(_)
Sorted(s) ==
  IF s = {} THEN <<>>
  ELSE LET m == CHOOSE x \in s : \A y \in s : x <= y
       IN  <<m>> \o Sorted(s \ {m})

\* reversed(list)
RECURSIVE Reversed(_)
Reversed(list) ==
  IF list = <<>> THEN <<>> ELSE Reversed(Tail(list)) \o <<Head(list)>>

\* SlicePrefix keeping the end of the list instead of its start
SlicePrefix_KeepsEnd(list, stop) ==
  IF stop >= 0 THEN SubSeq(list, Len(list) - Min(stop, Len(list)) + 1, Len(list))
  ELSE SubSeq(list, 1, Max(0, Len(list) + stop))

\* list[:stop], with Python's meaning of a negative stop
SlicePrefix(list, stop) ==
  IF stop >= 0 THEN SubSeq(list, 1, Min(stop, Len(list)))
  ELSE SubSeq(list, 1, Max(0, Len(list) + stop))

ToSet(list) == {list[k] : k \in DOMAIN list}

\* AllIndices without the prioritisation step
AllIndices_KeepsUnion(important, context, max) == important \cup context

\* AllIndices keeping every important index when the union is over the limit
AllIndices_NoCut(important, context, max) ==
  LET union == important \cup context
  IN  IF Cardinality(union) > max
      THEN important
      ELSE union

\* AllIndices keeping one index more than the limit
AllIndices_OneOver(important, context, max) ==
  LET union == important \cup context
  IN  IF Cardinality(union) > max
      THEN ToSet(SlicePrefix(Sorted(important), max + 1))
      ELSE union

\* all_indices after the prioritisation step
AllIndices(important, context, max) ==
  LET union == important \cup context
  IN  IF Cardinality(union) > max
      THEN ToSet(SlicePrefix(Sorted(important), max))
      ELSE union

\* the initial value of last_idx
InitialLastIdx == -2

\* EmitLoop with a marker only for a gap of two or more lines
RECURSIVE EmitLoop_SkipsShortGaps(_, _, _, _)
EmitLoop_SkipsShortGaps(asm, sorted_indices, last_idx, sel) ==
  IF sorted_indices = <<>>
  THEN [selected |-> sel.selected, from |-> sel.from, last_idx |-> last_idx]
  ELSE LET idx == Head(sorted_indices)
           gap == idx > last_idx + 2
           s1 == IF gap
                 THEN [selected |-> Append(sel.selected, OmissionMarker(idx - last_idx - 1)),
                       from |-> Append(sel.from, -1)]
                 ELSE sel
           s2 == IF 0 <= idx /\ idx < Len(asm)
                 THEN [selected |-> Append(s1.selected, At(asm, idx)),
                       from |-> Append(s1.from, idx)]
                 ELSE s1
       IN  EmitLoop_SkipsShortGaps(asm, Tail(sorted_indices), idx, s2)

\* the gap loop over sorted_indices; sel is the pair of selected_assembly
\* and, for each entry, the input index it was taken from (-1: synthetic)
RECURSIVE EmitLoop(_, _, _, _)
EmitLoop(asm, sorted_indices, last_idx, sel) ==
  IF sorted_indices = <<>>
  THEN [selected |-> sel.selected, from |-> sel.from, last_idx |-> last_idx]
  ELSE LET idx == Head(sorted_indices)
           gap == idx > last_idx + 1
           s1 == IF gap
                 THEN [selected |-> Append(sel.selected, OmissionMarker(idx - last_idx - 1)),
                       from |-> Append(sel.from, -1)]
                 ELSE sel
           s2 == IF 0 <= idx /\ idx < Len(asm)
                 THEN [selected |-> Append(s1.selected, At(asm, idx)),
                       from |-> Append(s1.from, idx)]
                 ELSE s1
       IN  EmitLoop(asm, Tail(sorted_indices), idx, s2)

\* EmitTail without the final marker
EmitTail_NoMarker(asm, loop) == [selected |-> loop.selected, from |-> loop.from]

\* EmitTail stating the length of the listing less the last index
EmitTail_CountsLast(asm, loop) ==
  IF loop.last_idx < Len(asm) - 1
  THEN [selected |-> Append(loop.selected, OmissionMarker(Len(asm) - loop.last_idx)),
        from |-> Append(loop.from, -1)]
  ELSE [selected |-> loop.selected, from |-> loop.from]

\* the final omission marker
EmitTail(asm, loop) ==
  IF loop.last_idx < Len(asm) - 1
  THEN [selected |-> Append(loop.selected, OmissionMarker(Len(asm) - loop.last_idx - 1)),
        from |-> Append(loop.from, -1)]
  ELSE [selected |-> loop.selected, from |-> loop.from]

\* UnderLimit with a strict comparison
UnderLimit_Strict(asm, max) == Len(asm) < max

\* the early return
UnderLimit(asm, max) == Len(asm) <= max

\* the order in which "for idx in s" visits the set s: ascending, or
\* descending when hash_order is "descending"
SetIteration(s, hash_order) ==
  IF hash_order = "descending" THEN Reversed(Sorted(s)) ELSE Sorted(s)

\* The call as a whole, under the given iteration order of sets.  The result
\* carries the locals at the return.
Select(asm, items, max, hash_order) ==
  IF UnderLimit(asm, max)
  THEN [selected |-> asm, from |-> [k \in 1..Len(asm) |-> k - 1],
        important |-> {}, all |-> {}]
  ELSE LET important == ImportantIndices(asm, items)
           context == AddContext(SetIteration(important, hash_order), Len(asm), {})
           all == AllIndices(important, context, max)
           loop == EmitLoop(asm, Sorted(all), InitialLastIdx,
                            [selected |-> <<>>, from |-> <<>>])
           out == EmitTail(asm, loop)
       IN  [selected |-> out.selected, from |-> out.from,
            important |-> important, all |-> all]

\* the value select_important_assembly returns
SelectImportantAssembly(asm, items, max) == Select(asm, items, max, "ascending").selected

-----------------------------------------------------------------------------
(***************************************************************************)
(* The state machine: one call of the selector on inputs drawn from the    *)
(* bounded sets above.                                                     *)
(***************************************************************************)
Init ==
  /\ \E input \in Inputs :
       /\ asm_array = input[1]
       /\ label_definitions = input[2]
  /\ max_lines \in Budgets
  /\ pc = "call"
  /\ important_indices = {}
  /\ all_indices = {}
  /\ selected_assembly = <<>>
  /\ origin = <<>>
  /\ request = <<>>
  /\ structured_data = <<>>
  /\ NoThreads
  /\ NoCache

\* if len(asm_array) <= max_lines: return asm_array
ReturnUnchanged ==
  /\ pc = "call"
  /\ UnderLimit(asm_array, max_lines)
  /\ LET r == Select(asm_array, label_definitions, max_lines, "ascending")
     IN  /\ selected_assembly' = r.selected
         /\ origin' = r.from
         /\ important_indices' = r.important
         /\ all_indices' = r.all
  /\ pc' = "unchanged"
  /\ UNCHANGED <<asm_array, label_definitions, max_lines>>
  /\ UNCHANGED requestVars
  /\ UNCHANGED <<threadVars, cacheVars>>

\* the rest of the function body
ReturnSelected ==
  /\ pc = "call"
  /\ ~UnderLimit(asm_array, max_lines)
  /\ LET r == Select(asm_array, label_definitions, max_lines, "ascending")
     IN  /\ selected_assembly' = r.selected
         /\ origin' = r.from
         /\ important_indices' = r.important
         /\ all_indices' = r.all
  /\ pc' = "selected"
  /\ UNCHANGED <<asm_array, label_definitions, max_lines>>
  /\ UNCHANGED requestVars
  /\ UNCHANGED <<threadVars, cacheVars>>

Next == ReturnUnchanged \/ ReturnSelected

Spec == Init /\ [][Next]_vars

Returned == pc \in {"unchanged", "selected"}

-----------------------------------------------------------------------------
(***************************************************************************)
(* Prompt.prepare_structured_data: the caller of the selector.  A request  *)
(* is an ExplainRequest; its asm items are AssemblyItem objects.            *)
(***************************************************************************)
S_cpp == <<"c", "+", "+">>
S_gpp == <<"g", "+", "+">>
S_code == <<"i", "n", "t", " ", "x", ";">>
S_unknown == <<"u", "n", "k", "n", "o", "w", "n">>

SourcedLine == AssemblyItem(S_mov, <<SourceMapping(<<0>>)>>)

\* the listing lengths of the checked requests, around MAX_ASSEMBLY_LINES
RequestLengths ==
  Max(0, MAX_ASSEMBLY_LINES - LenSlack)..(MAX_ASSEMBLY_LINES + LenSlack)

\* listings of n lines with the label maps checked with them: the lists and
\* maps of Inputs, and the listing whose lines are all source-mapped
RequestInputs(n) ==
  UNION { UNION { AsmArrays(n, m) \X LabelMaps(l, n) : l \in 0..(MaxMarks - m) }
          : m \in 0..MaxMarks }
    \cup UNION { { [k \in 1..n |-> SourcedLine] } \X LabelMaps(l, n) : l \in 0..MaxMarks }

\* labelDefinitions of a request: the map, or None as well when it is empty
OptionalLabels(labels) ==
  IF labels = <<>> THEN { <<>>, << <<>> >> } ELSE { <<labels>> }

\* the request carrying the listing asm and the labelDefinitions labels
Request(asm, labels) ==
  [language |-> S_cpp, compiler |-> S_gpp, code |-> S_code,
   compilationOptions |-> <<>>, instructionSet |-> <<>>,
   asm |-> asm, labelDefinitions |-> labels]

\* item.model_dump() of an AssemblyItem
ModelDump(item) ==
  [text |-> item.text,
   source |-> IF item.source = <<>> THEN <<>>
              ELSE <<[file |-> item.source[1].file,
                      line |-> item.source[1].line,
                      column |-> item.source[1].column]>>,
   labels |-> item.labels,
   isOmissionMarker |-> item.isOmissionMarker]

\* [item.model_dump() for item in request.asm]
AsmDicts(req) == [k \in DOMAIN req.asm |-> ModelDump(req.asm[k])]

\* request.labelDefinitions or {}
LabelDefinitionsOrEmpty(req) ==
  IF req.labelDefinitions = <<>> \/ req.labelDefinitions[1] = <<>>
  THEN <<>>
  ELSE req.labelDefinitions[1]

\* request.instruction_set_with_default
InstructionSetWithDefault(req) ==
  IF req.instructionSet = <<>> THEN S_unknown ELSE req.instructionSet[1]

\* TooLarge with the comparison including the limit itself
TooLarge_AtLimit(asm_dicts) == Len(asm_dicts) >= MAX_ASSEMBLY_LINES

\* len(asm_dicts) > MAX_ASSEMBLY_LINES
TooLarge(asm_dicts) == Len(asm_dicts) > MAX_ASSEMBLY_LINES

\* the dict prepare_structured_data returns, given the selector's output
StructuredData(req, selected) ==
  IF TooLarge(AsmDicts(req))
  THEN [language |-> req.language, compiler |-> req.compiler,
        sourceCode |-> req.code,
        instructionSet |-> InstructionSetWithDefault(req),
        compilationOptions |-> req.compilationOptions,
        assembly |-> selected,
        truncated |-> TRUE,
        originalLength |-> Len(AsmDicts(req)),
        labelDefinitions |-> LabelDefinitionsOrEmpty(req)]
  ELSE [language |-> req.language, compiler |-> req.compiler,
        sourceCode |-> req.code,
        instructionSet |-> InstructionSetWithDefault(req),
        compilationOptions |-> req.compilationOptions,
        assembly |-> AsmDicts(req),
        truncated |-> FALSE,
        labelDefinitions |-> LabelDefinitionsOrEmpty(req)]

InitRequest ==
  /\ \E n \in RequestLengths :
       \E input \in RequestInputs(n) :
         \E labels \in OptionalLabels(input[2]) :
           request = Request(input[1], labels)
  /\ structured_data = <<>>
  /\ NoThreads
  /\ NoCache
  /\ pc = "request"
  /\ asm_array = <<>>
  /\ label_definitions = <<>>
  /\ max_lines = MAX_ASSEMBLY_LINES
  /\ important_indices = {}
  /\ all_indices = {}
  /\ selected_assembly = <<>>
  /\ origin = <<>>

\* the branch that calls select_important_assembly with the default max_lines
PrepareTruncated ==
  /\ pc = "request"
  /\ TooLarge(AsmDicts(request))
  /\ asm_array' = AsmDicts(request)
  /\ label_definitions' = LabelDefinitionsOrEmpty(request)
  /\ max_lines' = MAX_ASSEMBLY_LINES
  /\ LET r == Select(AsmDicts(request), LabelDefinitionsOrEmpty(request),
                     MAX_ASSEMBLY_LINES, "ascending")
     IN  /\ selected_assembly' = r.selected
         /\ origin' = r.from
         /\ important_indices' = r.important
         /\ all_indices' = r.all
         /\ structured_data' = StructuredData(request, r.selected)
  /\ pc' = "truncated"
  /\ UNCHANGED request
  /\ UNCHANGED <<threadVars, cacheVars>>

\* the branch that uses the full assembly
PrepareFull ==
  /\ pc = "request"
  /\ ~TooLarge(AsmDicts(request))
  /\ structured_data' = StructuredData(request, <<>>)
  /\ pc' = "full"
  /\ UNCHANGED selectVars
  /\ UNCHANGED request
  /\ UNCHANGED <<threadVars, cacheVars>>

NextRequest == PrepareTruncated \/ PrepareFull

SpecRequest == InitRequest /\ [][NextRequest]_vars

Prepared == pc \in {"truncated", "full"}

\* an AssemblyItem of a request with its isOmissionMarker field set
FlaggedItem(text, source, flag) ==
  [text |-> text, source |-> source, labels |-> <<>>, isOmissionMarker |-> <<flag>>]

\* the lines that differ from PlainLine in the listings with flagged lines:
\* lines sent with isOmissionMarker true, with and without a source mapping,
\* and a line sent with isOmissionMarker false
FlaggedLines ==
  { FlaggedItem(S_nop, <<>>, TRUE),
    FlaggedItem(S_mov, <<SourceMapping(<<0>>)>>, TRUE),
    FlaggedItem(S_ret, <<>>, FALSE) }

\* lists of n lines of which exactly m are flagged lines
FlaggedArrays(n, m) ==
  UNION { { [k \in 1..n |-> IF k \in P THEN f[k] ELSE PlainLine] : f \in [P -> FlaggedLines] }
          : P \in {Q \in SUBSET (1..n) : Cardinality(Q) = m} }

\* a call of the selector on a listing with flagged lines
InitFlagged ==
  /\ \E n \in 0..MaxLen :
       \E m \in 0..MaxMarks :
         \E l \in 0..(MaxMarks - m) :
           /\ asm_array \in FlaggedArrays(n, m)
           /\ label_definitions \in LabelMaps(l, n)
  /\ max_lines \in Budgets
  /\ pc = "call"
  /\ important_indices = {}
  /\ all_indices = {}
  /\ selected_assembly = <<>>
  /\ origin = <<>>
  /\ request = <<>>
  /\ structured_data = <<>>
  /\ NoThreads
  /\ NoCache

SpecFlagged == InitFlagged /\ [][Next]_vars

-----------------------------------------------------------------------------
(***************************************************************************)
(* Concurrent invocations of select_important_assembly, one per request-   *)
(* handling thread, each on its own arguments.  A thread runs the function *)
(* statement group by statement group; the threads interleave freely.      *)
(***************************************************************************)
Calls == {"t1", "t2"}

\* the length of the listings of the concurrent calls
ConcLen == 3

\* the (asm_array, label_definitions) pairs of the concurrent calls: one
\* special line or one label definition at most
ThreadInputs ==
  (AsmArrays(ConcLen, 0) \X (LabelMaps(0, ConcLen) \cup LabelMaps(1, ConcLen)))
    \cup (AsmArrays(ConcLen, 1) \X LabelMaps(0, ConcLen))

\* their budgets: a truncating one, and the listing's length
ThreadBudgets == {1, ConcLen}

\* the invocation whose locals the call c works on: every invocation has
\* its own
Frame_Shared(c) == "t1"

Frame(c) == c

\* the locals of an invocation before its first assignment
NoLocals ==
  [important_indices |-> {}, context_indices |-> {}, all_indices |-> {},
   selected_assembly |-> <<>>]

\* no single call and no request in progress
NoCall ==
  /\ asm_array = <<>>
  /\ label_definitions = <<>>
  /\ max_lines = 0
  /\ important_indices = {}
  /\ all_indices = {}
  /\ selected_assembly = <<>>
  /\ origin = <<>>
  /\ request = <<>>
  /\ structured_data = <<>>

\* what the concurrent calls leave alone
singleVars == <<selectVars, pc, requestVars, cacheVars>>

InitConcurrent ==
  /\ calls \in [Calls -> { [asm_array |-> input[1], label_definitions |-> input[2],
                            max_lines |-> budget, pc |-> "call", result |-> <<>>] :
                           input \in ThreadInputs, budget \in ThreadBudgets }]
  /\ frames = [c \in Calls |-> NoLocals]
  /\ pc = "threads"
  /\ NoCall
  /\ NoCache

\* if len(asm_array) <= max_lines: return asm_array
ThreadReturnUnchanged(c) ==
  /\ calls[c].pc = "call"
  /\ UnderLimit(calls[c].asm_array, calls[c].max_lines)
  /\ calls' = [calls EXCEPT ![c].pc = "done", ![c].result = calls[c].asm_array]
  /\ UNCHANGED frames
  /\ UNCHANGED singleVars

\* important_indices = set()
ThreadEnter(c) ==
  /\ calls[c].pc = "call"
  /\ ~UnderLimit(calls[c].asm_array, calls[c].max_lines)
  /\ frames' = [frames EXCEPT ![Frame(c)].important_indices = {}]
  /\ calls' = [calls EXCEPT ![c].pc = "labels"]
  /\ UNCHANGED singleVars

\* the loop over label_definitions.items()
ThreadMarkLabels(c) ==
  /\ calls[c].pc = "labels"
  /\ frames' = [frames EXCEPT ![Frame(c)].important_indices =
                  MarkLabels(calls[c].label_definitions, Len(calls[c].asm_array),
                             frames[Frame(c)].important_indices)]
  /\ calls' = [calls EXCEPT ![c].pc = "lines"]
  /\ UNCHANGED singleVars

\* the loop over enumerate(asm_array)
ThreadMarkLines(c) ==
  /\ calls[c].pc = "lines"
  /\ frames' = [frames EXCEPT ![Frame(c)].important_indices =
                  MarkLines(calls[c].asm_array, 0, frames[Frame(c)].important_indices)]
  /\ calls' = [calls EXCEPT ![c].pc = "context"]
  /\ UNCHANGED singleVars

\* context_indices = set() and the loop over important_indices
ThreadAddContext(c) ==
  /\ calls[c].pc = "context"
  /\ frames' = [frames EXCEPT ![Frame(c)].context_indices =
                  AddContext(SetIteration(frames[Frame(c)].important_indices, "ascending"),
                             Len(calls[c].asm_array), {})]
  /\ calls' = [calls EXCEPT ![c].pc = "combine"]
  /\ UNCHANGED singleVars

\* all_indices = important_indices.union(context_indices) and the
\* prioritisation step
ThreadPrioritise(c) ==
  /\ calls[c].pc = "combine"
  /\ frames' = [frames EXCEPT ![Frame(c)].all_indices =
                  AllIndices(frames[Frame(c)].important_indices,
                             frames[Frame(c)].context_indices, calls[c].max_lines)]
  /\ calls' = [calls EXCEPT ![c].pc = "emit"]
  /\ UNCHANGED singleVars

\* selected_assembly = [], the gap loop and the final marker
ThreadEmit(c) ==
  /\ calls[c].pc = "emit"
  /\ frames' = [frames EXCEPT ![Frame(c)].selected_assembly =
                  EmitTail(calls[c].asm_array,
                           EmitLoop(calls[c].asm_array,
                                    Sorted(frames[Frame(c)].all_indices), InitialLastIdx,
                                    [selected |-> <<>>, from |-> <<>>])).selected]
  /\ calls' = [calls EXCEPT ![c].pc = "return"]
  /\ UNCHANGED singleVars

\* return selected_assembly
ThreadReturn(c) ==
  /\ calls[c].pc = "return"
  /\ calls' = [calls EXCEPT ![c].pc = "done",
                            ![c].result = frames[Frame(c)].selected_assembly]
  /\ UNCHANGED frames
  /\ UNCHANGED singleVars

ThreadStep(c) ==
  \/ ThreadReturnUnchanged(c)
  \/ ThreadEnter(c)
  \/ ThreadMarkLabels(c)
  \/ ThreadMarkLines(c)
  \/ ThreadAddContext(c)
  \/ ThreadPrioritise(c)
  \/ ThreadEmit(c)
  \/ ThreadReturn(c)

NextConcurrent == \E c \in Calls : ThreadStep(c)

SpecConcurrent == InitConcurrent /\ [][NextConcurrent]_vars

-----------------------------------------------------------------------------
(***************************************************************************)
(* The response cache of src/app/cache.py: get_cached_response and         *)
(* cache_response over a provider whose get returns what was last put      *)
(* under a key.  An object is a record with a "class" field, a dict is a   *)
(* record without one.  Texts that are only stored and compared are        *)
(* strings.                                                                *)
(***************************************************************************)

\* the number of calls made to the two cache functions
MaxOps == 3

\* ExplainRequest with the fields the cache functions and generate_messages
\* read, bypass_cache among them
CacheRequest(asm, bypass) ==
  [language |-> S_cpp, compiler |-> S_gpp, code |-> S_code,
   compilationOptions |-> <<>>, instructionSet |-> <<>>,
   asm |-> asm, labelDefinitions |-> <<>>,
   audience |-> "beginner", explanation |-> "assembly",
   bypass_cache |-> bypass]

\* the requests of the cache calls: a short listing and one that
\* prepare_structured_data truncates, each with and without bypass_cache
CacheRequests ==
  { CacheRequest(asm, bypass) :
      asm \in { <<PlainLine>>,
                [k \in 1..(MAX_ASSEMBLY_LINES + 1) |->
                   IF k = 1 THEN SourcedLine ELSE PlainLine] },
      bypass \in BOOLEAN }

\* TokenUsage and CostBreakdown objects; costs are counted in whole units
TokenUsage(input, output) ==
  [class |-> "TokenUsage", input_tokens |-> input, output_tokens |-> output,
   total_tokens |-> input + output]

CostBreakdown(input, output) ==
  [class |-> "CostBreakdown", input_cost |-> input, output_cost |-> output,
   total_cost |-> input + output]

\* the fields src/app/explain_api.py declares for ExplainResponse
ExplainResponseFields ==
  {"explanation", "status", "message", "model", "usage", "cost"}

\* the fields of ExplainResponse, with the cached flag get_cached_response
\* sets
DeclaredResponseFields == ExplainResponseFields \cup {"cached"}

\* an ExplainResponse object
ExplainResponse(status, explanation, message, model, usage, cost, cached) ==
  [class |-> "ExplainResponse", explanation |-> explanation, status |-> status,
   message |-> message, model |-> model, usage |-> usage, cost |-> cost,
   cached |-> cached]

\* the responses handed to cache_response: a success and an error
CacheResponses ==
  { ExplainResponse("success", <<"This function...">>, <<>>, <<"claude">>,
                    <<TokenUsage(100, 50)>>, <<CostBreakdown(1, 2)>>, FALSE),
    ExplainResponse("error", <<>>, <<"failed">>, <<>>, <<>>, <<>>, FALSE) }

\* model_dump() of an optional nested object: its fields as a dict
DumpOptional(field) ==
  IF field = <<>> THEN <<>>
  ELSE <<[name \in DOMAIN field[1] \ {"class"} |-> field[1][name]]>>

\* ResponseModelDump leaving usage and cost out of the dict
ResponseModelDump_NoUsage(response) ==
  [name \in DOMAIN response \ {"class", "usage", "cost"} |-> response[name]]

\* response.model_dump()
ResponseModelDump(response) ==
  [name \in DOMAIN response \ {"class"} |->
     IF name \in {"usage", "cost"} THEN DumpOptional(response[name])
     ELSE response[name]]

\* the value of a key of a dict, or None
DictGet(data, name) == IF name \in DOMAIN data THEN data[name] ELSE <<>>

\* validation of an optional nested dict into an object of the given class;
\* <<>> stands for None
LoadOptional(field, class, names) ==
  IF field = <<>> THEN <<>>
  ELSE <<[name \in names \cup {"class"} |->
            IF name = "class" THEN class ELSE field[1][name]]>>

\* does ExplainResponse(**cached_data) validate: status is required, a
\* nested dict needs all its fields, and keys that are no fields are ignored
ValidResponseData(data) ==
  /\ "status" \in DOMAIN data
  /\ DictGet(data, "usage") # <<>> =>
       {"input_tokens", "output_tokens", "total_tokens"} \subseteq DOMAIN DictGet(data, "usage")[1]
  /\ DictGet(data, "cost") # <<>> =>
       {"input_cost", "output_cost", "total_cost"} \subseteq DOMAIN DictGet(data, "cost")[1]

\* ExplainResponse(**cached_data) for data that validates
LoadResponse(data) ==
  ExplainResponse(data.status, DictGet(data, "explanation"), DictGet(data, "message"),
                  DictGet(data, "model"),
                  LoadOptional(DictGet(data, "usage"), "TokenUsage",
                               {"input_tokens", "output_tokens", "total_tokens"}),
                  LoadOptional(DictGet(data, "cost"), "CostBreakdown",
                               {"input_cost", "output_cost", "total_cost"}),
                  IF "cached" \in DOMAIN data THEN data.cached ELSE FALSE)

\* the try block of get_cached_response: the response built from the cached
\* dict and marked as cached, or None when building or marking it raises
FromCachedData(data) ==
  IF ~ValidResponseData(data) THEN <<>>
  ELSE IF "cached" \notin DeclaredResponseFields THEN <<>>
  ELSE <<[LoadResponse(data) EXCEPT !.cached = TRUE]>>

\* prepare_structured_data as generate_messages calls it
PreparedData(req) ==
  StructuredData(req, SelectImportantAssembly(AsmDicts(req), LabelDefinitionsOrEmpty(req),
                                              MAX_ASSEMBLY_LINES))

\* Prompt.generate_messages for the prompt configuration in use: the
\* templates are fixed, so a formatted text is given by the values put in
\* it, and the JSON text of the structured data by the data
GenerateMessages(req) ==
  [model |-> "test-model", max_tokens |-> 2000, temperature |-> 0,
   system |-> <<InstructionSetWithDefault(req), req.language, req.audience,
                req.explanation>>,
   messages |-> <<[role |-> "user",
                   content |-> <<InstructionSetWithDefault(req), PreparedData(req)>>],
                  [role |-> "assistant", content |-> "prefill"]>>,
   structured_data |-> PreparedData(req)]

\* hashlib.sha256(...).hexdigest(), taken to be free of collisions: the
\* digest is given by the text it was computed from
Sha256(text) == <<"sha256", text>>

\* GenerateCacheKey leaving the messages out of the hashed data
GenerateCacheKey_NoMessages(req) ==
  LET prompt_data == GenerateMessages(req)
  IN  Sha256([model |-> prompt_data.model, max_tokens |-> prompt_data.max_tokens,
              temperature |-> prompt_data.temperature, system |-> prompt_data.system,
              prompt_version |-> "config"])

\* GenerateCacheKey hashing the request's bypass_cache flag as well
GenerateCacheKey_WithBypass(req) ==
  LET prompt_data == GenerateMessages(req)
  IN  Sha256([model |-> prompt_data.model, max_tokens |-> prompt_data.max_tokens,
              temperature |-> prompt_data.temperature, system |-> prompt_data.system,
              messages |-> prompt_data.messages, prompt_version |-> "config",
              bypass_cache |-> req.bypass_cache])

\* generate_cache_key
GenerateCacheKey(req) ==
  LET prompt_data == GenerateMessages(req)
  IN  Sha256([model |-> prompt_data.model, max_tokens |-> prompt_data.max_tokens,
              temperature |-> prompt_data.temperature, system |-> prompt_data.system,
              messages |-> prompt_data.messages, prompt_version |-> "config"])

\* cache_provider.get(key): the dict last put under the key, or None
ProviderGet(store, key) == IF key \in DOMAIN store THEN <<store[key]>> ELSE <<>>

\* cache_provider.put(key, value)
ProviderPut(store, key, value) ==
  [k \in DOMAIN store \cup {key} |-> IF k = key THEN value ELSE store[k]]

\* Bypassed ignoring the request's flag
Bypassed_Never(req) == FALSE

\* if request.bypass_cache
Bypassed(req) == req.bypass_cache

InitCache ==
  /\ cache = <<>>
  /\ provider_calls = <<>>
  /\ history = <<>>
  /\ pc = "cache"
  /\ NoCall
  /\ NoThreads

\* what the cache functions leave alone
nonCacheVars == <<selectVars, pc, requestVars, threadVars>>

\* get_cached_response returning at the bypass test
GetCachedResponseBypassed ==
  /\ Len(history) < MaxOps
  /\ \E req \in CacheRequests :
       /\ Bypassed(req)
       /\ history' = Append(history, [op |-> "get_cached_response", request |-> req,
                                      response |-> <<>>, result |-> <<>>])
  /\ UNCHANGED <<cache, provider_calls>>
  /\ UNCHANGED nonCacheVars

\* get_cached_response past the bypass test
GetCachedResponseLookup ==
  /\ Len(history) < MaxOps
  /\ \E req \in CacheRequests :
       /\ ~Bypassed(req)
       /\ LET cache_key == GenerateCacheKey(req)
              cached_data == ProviderGet(cache, cache_key)
          IN  /\ provider_calls' = Append(provider_calls, <<"get", cache_key>>)
              /\ history' =
                   Append(history,
                          [op |-> "get_cached_response", request |-> req,
                           response |-> <<>>,
                           result |-> IF cached_data = <<>> THEN <<>>
                                      ELSE FromCachedData(cached_data[1])])
  /\ UNCHANGED cache
  /\ UNCHANGED nonCacheVars

\* cache_response
CacheResponse ==
  /\ Len(history) < MaxOps
  /\ \E req \in CacheRequests :
       \E response \in CacheResponses :
         LET cache_key == GenerateCacheKey(req)
             response_data == ResponseModelDump(response)
         IN  /\ provider_calls' = Append(provider_calls, <<"put", cache_key>>)
             /\ cache' = ProviderPut(cache, cache_key, response_data)
             /\ history' = Append(history, [op |-> "cache_response", request |-> req,
                                            response |-> <<response>>, result |-> <<>>])
  /\ UNCHANGED nonCacheVars

NextCache == GetCachedResponseBypassed \/ GetCachedResponseLookup \/ CacheResponse

SpecCache == InitCache /\ [][NextCache]_vars

-----------------------------------------------------------------------------
(***************************************************************************)
(* generate_cache_key called on two requests, for the fixed prompt.        *)
(***************************************************************************)
S_code_other == <<"i", "n", "t", " ", "y", ";">>

\* listings of n lines: a ret or a plain line first, then plain lines and
\* lines of another text that the selector does not mark
KeyListings(n) ==
  { [k \in 1..n |-> IF k = 1 THEN first ELSE rest[k]] :
      first \in {PlainLine, AssemblyItem(S_ret, <<>>)},
      rest \in [2..n -> {PlainLine, AssemblyItem(S_mov, <<>>)}] }

\* the requests keys are generated for: listings at the limit of
\* prepare_structured_data and one line over it, two source codes, and both
\* values of bypass_cache
KeyRequests ==
  { [CacheRequest(asm, bypass) EXCEPT !.code = code] :
      asm \in KeyListings(MAX_ASSEMBLY_LINES) \cup KeyListings(MAX_ASSEMBLY_LINES + 1),
      code \in {S_code, S_code_other},
      bypass \in BOOLEAN }

InitKeys ==
  /\ cache = <<>>
  /\ provider_calls = <<>>
  /\ history = <<>>
  /\ pc = "keys"
  /\ NoCall
  /\ NoThreads

\* one call of generate_cache_key; two calls are made
GenerateCacheKeyCall ==
  /\ Len(history) < 2
  /\ \E req \in KeyRequests :
       history' = Append(history, [op |-> "generate_cache_key", request |-> req,
                                   response |-> <<>>,
                                   result |-> <<GenerateCacheKey(req)>>])
  /\ UNCHANGED <<cache, provider_calls>>
  /\ UNCHANGED nonCacheVars

NextKeys == GenerateCacheKeyCall

SpecKeys == InitKeys /\ [][NextKeys]_vars

-----------------------------------------------------------------------------
(***************************************************************************)
(* The cache functions over a provider that fails: its get or its put      *)
(* raises, or its get returns data that is no ExplainResponse.  The        *)
(* outcome of a call is "returned" or "raised".                            *)
(***************************************************************************)

\* dicts that ExplainResponse(**cached_data) rejects: no status, and a usage
\* without its counts
MalformedData ==
  { [invalid |-> "response_structure"],
    [status |-> "success", usage |-> <<[input_tokens |-> 1]>>] }

InitFaults ==
  /\ cache = <<>>
  /\ provider_calls = <<>>
  /\ history = <<>>
  /\ pc = "faults"
  /\ NoCall
  /\ NoThreads

\* get_cached_response when cache_provider.get raises: the call is made
\* outside the try block, so the exception leaves the function
GetCachedResponseGetRaises ==
  /\ Len(history) < MaxOps
  /\ \E req \in CacheRequests :
       /\ ~Bypassed(req)
       /\ provider_calls' = Append(provider_calls, <<"get", GenerateCacheKey(req)>>)
       /\ history' = Append(history, [op |-> "get_cached_response", request |-> req,
                                      response |-> <<>>, result |-> <<>>,
                                      outcome |-> "raised"])
  /\ UNCHANGED cache
  /\ UNCHANGED nonCacheVars

\* get_cached_response when cache_provider.get returns a malformed dict
GetCachedResponseMalformed ==
  /\ Len(history) < MaxOps
  /\ \E req \in CacheRequests :
       \E cached_data \in MalformedData :
         /\ ~Bypassed(req)
         /\ provider_calls' = Append(provider_calls, <<"get", GenerateCacheKey(req)>>)
         /\ history' = Append(history, [op |-> "get_cached_response", request |-> req,
                                        response |-> <<>>,
                                        result |-> FromCachedData(cached_data),
                                        outcome |-> "returned"])
  /\ UNCHANGED cache
  /\ UNCHANGED nonCacheVars

\* cache_response when cache_provider.put raises: the except branch logs
\* the error
CacheResponsePutRaises ==
  /\ Len(history) < MaxOps
  /\ \E req \in CacheRequests :
       \E response \in CacheResponses :
         /\ provider_calls' = Append(provider_calls, <<"put", GenerateCacheKey(req)>>)
         /\ history' = Append(history, [op |-> "cache_response", request |-> req,
                                        response |-> <<response>>, result |-> <<>>,
                                        outcome |-> "returned"])
  /\ UNCHANGED cache
  /\ UNCHANGED nonCacheVars

NextFaults ==
  \/ GetCachedResponseGetRaises
  \/ GetCachedResponseMalformed
  \/ CacheResponsePutRaises
  \/ CacheResponse

SpecFaults == InitFaults /\ [][NextFaults]_vars

-----------------------------------------------------------------------------
(***************************************************************************)
(* One call of the selector on listings long enough for a label block, an  *)
(* epilogue block and a context window to end inside the listing, with     *)
(* every kind of line the marking loops tell apart.                        *)
(***************************************************************************)
MarkLen == 7

\* the lines that differ from PlainLine: a mapping with line number 0, a
\* mapping whose line is None, the four return/epilogue texts (one of them
\* on a source-mapped line), and a text that only resembles a return.
\* asm_item.get("source") yields None for a dict without the key as well,
\* so the source None stands for a missing source too.
MarkKinds ==
  { AssemblyItem(S_mov, <<SourceMapping(<<0>>)>>),
    AssemblyItem(S_mov, <<SourceMapping(<<>>)>>),
    AssemblyItem(S_ret, <<>>),
    AssemblyItem(S_leave, <<>>),
    AssemblyItem(S_pop_rbp, <<SourceMapping(<<7>>)>>),
    AssemblyItem(S_ret_8_padded, <<>>),
    AssemblyItem(S_retq, <<>>) }

\* a listing of MarkLen lines with at most two lines that are not plain, at
\* most one label definition, valid or not, and a budget the listing exceeds
\* by two lines or one it fits in
InitMarks ==
  /\ \E P \in {Q \in SUBSET (1..MarkLen) : Cardinality(Q) <= 2} :
       \E f \in [P -> MarkKinds] :
         asm_array = [k \in 1..MarkLen |-> IF k \in P THEN f[k] ELSE PlainLine]
  /\ label_definitions \in LabelMaps(0, MarkLen) \cup LabelMaps(1, MarkLen)
  /\ max_lines \in {MarkLen - 2, MarkLen}
  /\ pc = "call"
  /\ important_indices = {}
  /\ all_indices = {}
  /\ selected_assembly = <<>>
  /\ origin = <<>>
  /\ request = <<>>
  /\ structured_data = <<>>
  /\ NoThreads
  /\ NoCache

SpecMarks == InitMarks /\ [][Next]_vars

-----------------------------------------------------------------------------
(***************************************************************************)
(* select_important_assembly of src/app/explain.py, the module-level copy  *)
(* of the method.  Its statements are those of the method except for the   *)
(* source test, which is two nested ifs, and the list sorted in the        *)
(* prioritisation step; the statements that are the same text are the      *)
(* operators above.                                                        *)
(***************************************************************************)

\* Explain_HasSourceLine without the inner if
Explain_HasSourceLine_OuterOnly(asm_item) == asm_item.source # <<>>

\* if asm_item.get("source") and asm_item["source"] is not None:
\*     if isinstance(asm_item["source"], dict)
\*             and asm_item["source"].get("line") is not None:
Explain_HasSourceLine(asm_item) ==
  IF asm_item.source # <<>>
  THEN IF asm_item.source[1].line # <<>> THEN TRUE ELSE FALSE
  ELSE FALSE

\* for idx, asm_item in enumerate(asm_array): ... of the copy
RECURSIVE Explain_MarkLines(_, _, _)
Explain_MarkLines(asm, idx, important) ==
  IF idx >= Len(asm) THEN important
  ELSE LET asm_item == At(asm, idx)
           withSource == IF Explain_HasSourceLine(asm_item) THEN {idx} ELSE {}
           text == Strip(asm_item.text)
           withReturn == IF text \in {S_ret, S_leave, S_pop_rbp} \/ StartsWith(text, S_ret_sp)
                         THEN Range(Max(0, idx - 3), idx + 1)
                         ELSE {}
       IN  Explain_MarkLines(asm, idx + 1, important \cup withSource \cup withReturn)

\* the value the copy returns; list(important_indices) is in the set's
\* iteration order, given by hash_order, before it is sorted
Explain_SelectImportantAssembly(asm, items, max, hash_order) ==
  IF Len(asm) <= max THEN asm
  ELSE LET important_indices_ == Explain_MarkLines(asm, 0, MarkLabels(items, Len(asm), {}))
           context_indices == AddContext(SetIteration(important_indices_, hash_order), Len(asm), {})
           union == important_indices_ \cup context_indices
           important_indices_list == Sorted(ToSet(SetIteration(important_indices_, hash_order)))
           all_indices_ == IF Cardinality(union) > max
                           THEN ToSet(SlicePrefix(important_indices_list, max))
                           ELSE union
           loop == EmitLoop(asm, Sorted(all_indices_), -2, [selected |-> <<>>, from |-> <<>>])
       IN  EmitTail(asm, loop).selected

\* a call of the copy on the input the method has been called on
ExplainCall ==
  /\ Returned
  /\ history = <<>>
  /\ \E hash_order \in {"ascending", "descending"} :
       history' = <<[op |-> "select_important_assembly",
                     result |-> Explain_SelectImportantAssembly(
                                  asm_array, label_definitions, max_lines, hash_order)]>>
  /\ UNCHANGED <<pc, selectVars, requestVars, threadVars, cache, provider_calls>>

NextCopies == Next \/ ExplainCall

SpecCopies == (Init \/ InitMarks) /\ [][NextCopies]_vars

\* a call of the selector, made directly or by prepare_structured_data
InitAll == Init \/ InitRequest

NextAll == Next \/ NextRequest

SpecAll == InitAll /\ [][NextAll]_vars

-----------------------------------------------------------------------------
(***************************************************************************)
(* Observations on a returned output.  origin[k] is the input index        *)
(* selected_assembly[k] was taken from, or -1 for an entry the selector    *)
(* made itself.                                                            *)
(***************************************************************************)
DigitValue(c) == CHOOSE d \in 0..9 : Digit(d) = c

RECURSIVE StrToNat(_)
StrToNat(s) == IF s = <<>> THEN 0
               ELSE 10 * StrToNat(SubSeq(s, 1, Len(s) - 1)) + DigitValue(s[Len(s)])

\* the count a marker text states: the number between "... (" and " lines omitted) ..."
StatedCount(text) ==
  StrToNat(SubSeq(text, Len(MarkerPrefix) + 1, Len(text) - Len(MarkerSuffix)))

\* positions of the output holding markers, and holding input lines
MarkerPositions == {k \in DOMAIN origin : origin[k] = -1}
LinePositions == {k \in DOMAIN origin : origin[k] >= 0}

\* input indices present in the output
RetainedIndices == {origin[k] : k \in LinePositions}

CountAt(k) == StatedCount(selected_assembly[k].text)

\* sum of the counts stated by the markers at the given output positions
RECURSIVE SumCounts(_)
SumCounts(positions) ==
  IF positions = {} THEN 0
  ELSE LET k == CHOOSE x \in positions : TRUE
       IN  CountAt(k) + SumCounts(positions \ {k})

\* is entry k of the output a synthetic marker dict with a well-formed text
IsSyntheticMarker(k) ==
  /\ origin[k] = -1
  /\ DOMAIN selected_assembly[k] = {"text", "isOmissionMarker"}
  /\ selected_assembly[k].isOmissionMarker = <<TRUE>>
  /\ selected_assembly[k].text = MarkerText(CountAt(k))

\* is entry k of the output an input line, unchanged
IsInputLine(k) ==
  /\ origin[k] \in 0..(Len(asm_array) - 1)
  /\ selected_assembly[k] = At(asm_array, origin[k])

\* maximal runs <<a, b>> of consecutive input indices absent from the output
OmittedRuns ==
  LET n == Len(asm_array)
      R == RetainedIndices
  IN  { run \in (0..(n - 1)) \X (0..(n - 1)) :
          /\ run[1] <= run[2]
          /\ \A i \in run[1]..run[2] : i \notin R
          /\ (run[1] = 0 \/ (run[1] - 1) \in R)
          /\ (run[2] = n - 1 \/ (run[2] + 1) \in R) }

\* the output position a marker for the run <<a, b>> has to occupy: right
\* after the entry of line a - 1, or first when a = 0
MarkerSlot(run) ==
  IF run[1] = 0 THEN 1
  ELSE 1 + (CHOOSE k \in LinePositions : origin[k] = run[1] - 1)

Truncates == Len(asm_array) > max_lines

-----------------------------------------------------------------------------
(***************************************************************************)
(* Claims.                                                                 *)
(***************************************************************************)

\* C1: omission accounting.  Whenever the selector truncates, every maximal
\* run of k consecutive input indices absent from the output is represented
\* by exactly one marker, in the run's place, whose stated count is k; there
\* are no other markers; and the stated counts plus the number of retained
\* lines add up to len(lines).
C1_OmissionAccounting ==
  (pc = "selected" /\ Truncates) =>
    /\ \A run \in OmittedRuns :
         /\ MarkerSlot(run) \in MarkerPositions
         /\ CountAt(MarkerSlot(run)) = run[2] - run[1] + 1
    /\ Cardinality(MarkerPositions) = Cardinality(OmittedRuns)
    /\ SumCounts(MarkerPositions) + Cardinality(LinePositions) = Len(asm_array)

\* C2: every entry of the output is an input line passed through unchanged
\* or a synthetic omission marker, and the entries that are input lines come
\* from strictly increasing input indices.
C2_VerbatimInOrder ==
  Returned =>
    /\ Len(origin) = Len(selected_assembly)
    /\ \A k \in DOMAIN selected_assembly : IsSyntheticMarker(k) \/ IsInputLine(k)
    /\ \A j, k \in LinePositions : j < k => origin[j] < origin[k]

\* C2 witness: a truncated output holding two retained lines with a marker
\* between them.
C2_Witness ==
  /\ pc = "selected"
  /\ \E j, k \in LinePositions : j + 1 \in MarkerPositions /\ k = j + 2

\* C3: identity below budget.  With len(lines) <= budget the output is the
\* input list: same entries, same order, no marker.
C3_IdentityBelowBudget ==
  (Returned /\ Len(asm_array) <= max_lines) =>
    /\ selected_assembly = asm_array
    /\ MarkerPositions = {}

\* C3 witness: a call on a non-empty list of exactly budget lines, with a
\* label definition and an important line, has returned.
C3_Witness ==
  /\ Returned
  /\ Len(asm_array) = max_lines
  /\ Len(asm_array) >= 2
  /\ label_definitions # <<>>
  /\ ImportantIndices(asm_array, label_definitions) # {}

\* the label definitions whose index lies in 0 .. len(lines) - 1
ValidLabelIndices ==
  { label_definitions[k][2] : k \in DOMAIN label_definitions }
    \cap (0..(Len(asm_array) - 1))

\* the important set and its union with the context set, from the inputs
Important == ImportantIndices(asm_array, label_definitions)
ImportantWithContext ==
  Important \cup UNION { ContextWindow(idx, Len(asm_array)) : idx \in Important }

\* does the prioritisation step cut the index set down
Overflows == Truncates /\ Cardinality(ImportantWithContext) > max_lines

\* C4 as stated: with budget >= 1, the line at every validly defined label
\* index appears in the output.
C4_LabelAnchoring_Original ==
  (Returned /\ max_lines >= 1) =>
    \A i \in ValidLabelIndices : i \in RetainedIndices

\* C4 amended: with budget >= 1, the line at a validly defined label index i
\* appears in the output unless the prioritisation step applies and at least
\* budget important indices are smaller than i.
C4_LabelAnchoring ==
  (Returned /\ max_lines >= 1) =>
    \A i \in ValidLabelIndices :
      (~Overflows \/ Cardinality({j \in Important : j < i}) < max_lines)
        => (\E k \in LinePositions : origin[k] = i /\ IsInputLine(k))

\* C4 witness: the prioritisation step applied, it dropped an important
\* index, and a validly defined label line was kept.
C4_Witness ==
  /\ pc = "selected"
  /\ max_lines >= 1
  /\ Overflows
  /\ Important \ RetainedIndices # {}
  /\ ValidLabelIndices \cap RetainedIndices # {}

\* C5: overflow policy.  When len(lines) > budget >= 1 and important plus
\* context exceed budget, the retained indices are exactly the
\* min(budget, |important|) smallest important indices.
C5_OverflowPolicy ==
  (pc = "selected" /\ max_lines >= 1 /\ Overflows) =>
    /\ RetainedIndices = all_indices
    /\ RetainedIndices \subseteq Important
    /\ Cardinality(RetainedIndices) = Min(max_lines, Cardinality(Important))
    /\ \A i \in RetainedIndices : \A j \in Important \ RetainedIndices : i < j

\* C5 witness: an overflow in which more than budget indices were important,
\* so that important indices had to be dropped.
C5_Witness ==
  /\ pc = "selected"
  /\ max_lines >= 1
  /\ Overflows
  /\ Cardinality(Important) > max_lines
  /\ RetainedIndices # {}

\* C6: a truncated input with no label definitions, no source-mapped line
\* and no return/epilogue line yields exactly one omission marker, whose
\* stated count is len(lines).
C6_UniformInput ==
  ( /\ pc = "selected"
    /\ max_lines >= 1
    /\ label_definitions = <<>>
    /\ \A k \in DOMAIN asm_array : ~HasSourceLine(asm_array[k]) /\ ~IsReturn(asm_array[k]) )
  => /\ Len(selected_assembly) = 1
     /\ IsSyntheticMarker(1)
     /\ CountAt(1) = Len(asm_array)

\* C7: an empty input yields an empty output, whatever the budget and the
\* label definitions.
C7_EmptyInput ==
  (Returned /\ asm_array = <<>>) => selected_assembly = <<>>

\* C8: a non-empty input with a budget of 0 or less yields exactly one
\* omission marker, spanning the whole input, and no input line.
C8_NonPositiveBudget ==
  (Returned /\ asm_array # <<>> /\ max_lines <= 0) =>
    /\ Len(selected_assembly) = 1
    /\ IsSyntheticMarker(1)
    /\ CountAt(1) = Len(asm_array)

\* label_definitions without the entries whose index is out of range
RECURSIVE WithoutInvalid(_, _)
WithoutInvalid(items, n) ==
  IF items = <<>> THEN <<>>
  ELSE IF 0 <= Head(items)[2] /\ Head(items)[2] < n
       THEN <<Head(items)>> \o WithoutInvalid(Tail(items), n)
       ELSE WithoutInvalid(Tail(items), n)

\* C9: label definitions whose index is negative or >= len(lines) are
\* ignored: the output is the output for the label map without them.
C9_InvalidLabelsIgnored ==
  Returned =>
    selected_assembly =
      SelectImportantAssembly(asm_array,
                              WithoutInvalid(label_definitions, Len(asm_array)),
                              max_lines)

\* C9 witness: a truncating call whose label map holds an index below 0 or
\* beyond the end, next to lines it did retain.
C9_Witness ==
  /\ pc = "selected"
  /\ RetainedIndices # {}
  /\ \E k \in DOMAIN label_definitions :
       label_definitions[k][2] < 0 \/ label_definitions[k][2] >= Len(asm_array)

\* C10: determinism.  The output does not depend on the order in which the
\* label map is iterated, nor on the order in which the index sets are.
C10_Determinism ==
  Returned =>
    selected_assembly =
      Select(asm_array, Reversed(label_definitions), max_lines, "descending").selected

\* C10 witness: a truncating call with two label definitions at different
\* valid indices and at least two important indices.
C10_Witness ==
  /\ pc = "selected"
  /\ Cardinality(ValidLabelIndices) >= 2
  /\ RetainedIndices # {}


\* C11: prepare_structured_data sets truncated = true exactly when the
\* request's assembly has more than MAX_ASSEMBLY_LINES lines; originalLength
\* is present exactly when truncated is true, and then it is the input line
\* count; when truncated is false the assembly field is the full input in
\* its original order.
C11_TruncatedFlag ==
  Prepared =>
    /\ structured_data.truncated = (Len(request.asm) > MAX_ASSEMBLY_LINES)
    /\ ("originalLength" \in DOMAIN structured_data) = structured_data.truncated
    /\ structured_data.truncated => structured_data.originalLength = Len(request.asm)
    /\ ~structured_data.truncated =>
         /\ Len(structured_data.assembly) = Len(request.asm)
         /\ \A k \in DOMAIN request.asm :
              structured_data.assembly[k] = ModelDump(request.asm[k])

\* C11 witness: a request one line over the limit was prepared, and its
\* result states the input line count.
C11_Witness ==
  /\ pc = "truncated"
  /\ Len(request.asm) = MAX_ASSEMBLY_LINES + 1
  /\ structured_data.truncated
  /\ structured_data.originalLength = MAX_ASSEMBLY_LINES + 1

\* C12 as stated: for a request with more than MAX_ASSEMBLY_LINES lines, the
\* assembly list of the result, markers included, has at most
\* MAX_ASSEMBLY_LINES entries.
C12_AtMostLimit_Original ==
  (Prepared /\ Len(request.asm) > MAX_ASSEMBLY_LINES) =>
    Len(structured_data.assembly) <= MAX_ASSEMBLY_LINES

\* C12 amended: for a request with more than MAX_ASSEMBLY_LINES lines, the
\* assembly list of the result is the selector's output; it has at most
\* MAX_ASSEMBLY_LINES original lines, and its omission markers come on top
\* of them, at most one more marker than there are original lines.
C12_AtMostLimit ==
  (Prepared /\ Len(request.asm) > MAX_ASSEMBLY_LINES) =>
    /\ structured_data.assembly = selected_assembly
    /\ Cardinality(LinePositions) <= MAX_ASSEMBLY_LINES
    /\ Cardinality(MarkerPositions) <= Cardinality(LinePositions) + 1
    /\ Len(structured_data.assembly) =
         Cardinality(LinePositions) + Cardinality(MarkerPositions)

\* C12 witness: a truncated result whose assembly list is longer than
\* MAX_ASSEMBLY_LINES while its original lines number MAX_ASSEMBLY_LINES.
C12_Witness ==
  /\ pc = "truncated"
  /\ Len(structured_data.assembly) > MAX_ASSEMBLY_LINES
  /\ Cardinality(LinePositions) = MAX_ASSEMBLY_LINES


\* C13 as stated: whenever len(lines) > budget >= 1, the output, counting
\* omission markers, has strictly fewer entries than the input.
C13_StrictlyShorter_Original ==
  (Returned /\ Truncates /\ max_lines >= 1) =>
    Len(selected_assembly) < Len(asm_array)

\* C13 amended: whenever len(lines) > budget >= 1, the output has strictly
\* fewer original lines than the input, and, counting omission markers, at
\* most 2 * budget + 1 entries.
C13_StrictlyShorter ==
  (Returned /\ Truncates /\ max_lines >= 1) =>
    /\ Cardinality(LinePositions) < Len(asm_array)
    /\ \A k \in LinePositions : IsInputLine(k)
    /\ Len(selected_assembly) <= 2 * max_lines + 1

\* C13 witness: a truncating call whose output, markers included, is at
\* least as long as its input.
C13_Witness ==
  /\ pc = "selected"
  /\ max_lines >= 1
  /\ Len(selected_assembly) >= Len(asm_array)
  /\ Cardinality(LinePositions) < Len(asm_array)

\* input indices of the lines whose trimmed text is ret
RetIndices ==
  { i \in 0..(Len(asm_array) - 1) : Strip(At(asm_array, i).text) = S_ret }

\* C14 as stated: whenever len(lines) > budget >= 1, every input line whose
\* trimmed text is ret appears in the output.
C14_ReturnsPreserved_Original ==
  (Returned /\ Truncates /\ max_lines >= 1) =>
    \A i \in RetIndices : i \in RetainedIndices

\* C14 amended: whenever len(lines) > budget >= 1, an input line at index i
\* whose trimmed text is ret appears in the output unless the prioritisation
\* step applies and at least budget important indices are smaller than i.
C14_ReturnsPreserved ==
  (Returned /\ Truncates /\ max_lines >= 1) =>
    \A i \in RetIndices :
      (~Overflows \/ Cardinality({j \in Important : j < i}) < max_lines)
        => (\E k \in LinePositions : origin[k] = i /\ IsInputLine(k))

\* C14 witness: the prioritisation step dropped an important index and a
\* ret line was kept.
C14_Witness ==
  /\ pc = "selected"
  /\ max_lines >= 1
  /\ Overflows
  /\ Important \ RetainedIndices # {}
  /\ RetIndices \cap RetainedIndices # {}

\* does the list hold an entry with isOmissionMarker = true
HasOmissionMarker(assembly) ==
  \E k \in DOMAIN assembly : assembly[k].isOmissionMarker = <<TRUE>>

\* C15: whenever the selector truncates (len(lines) > budget, budget >= 0),
\* its output contains at least one entry with isOmissionMarker = true; hence
\* truncated = true in the structured data implies that the assembly field
\* contains an omission marker.
C15_MarkerWhenTruncated ==
  /\ (pc = "selected" /\ max_lines >= 0) => HasOmissionMarker(selected_assembly)
  /\ (pc = "truncated") =>
       /\ structured_data.truncated
       /\ HasOmissionMarker(structured_data.assembly)
  /\ (pc = "full") => ~structured_data.truncated

\* C15 witness: a truncating call that retained no line, so that its only
\* entry is the final marker.
C15_Witness ==
  /\ pc = "selected"
  /\ max_lines >= 0
  /\ Len(asm_array) >= 2
  /\ RetainedIndices = {}
  /\ Len(selected_assembly) = 1
  /\ IsSyntheticMarker(1)

\* input indices of the lines carrying a source mapping with a line number
SourceIndices ==
  { i \in 0..(Len(asm_array) - 1) :
      /\ At(asm_array, i).source # <<>>
      /\ At(asm_array, i).source[1].line # <<>> }

\* C16 as stated: whenever len(lines) > budget >= 1 and some input line is
\* source-mapped, the output contains an original line with a source line
\* number.
C16_SourceLineKept_Original ==
  (Returned /\ Truncates /\ max_lines >= 1 /\ SourceIndices # {}) =>
    SourceIndices \cap RetainedIndices # {}

\* C16 amended: whenever len(lines) > budget >= 1 and some input line is
\* source-mapped, the output contains an original line with a source line
\* number, unless the prioritisation step applies and at least budget
\* important indices are smaller than the index of the first source-mapped
\* line.
C16_SourceLineKept ==
  (Returned /\ Truncates /\ max_lines >= 1 /\ SourceIndices # {}) =>
    LET first == CHOOSE i \in SourceIndices : \A j \in SourceIndices : i <= j
    IN  (~Overflows \/ Cardinality({j \in Important : j < first}) < max_lines)
          => (\E k \in LinePositions :
                /\ origin[k] \in SourceIndices
                /\ IsInputLine(k)
                /\ selected_assembly[k].source[1].line # <<>>)

\* C16 witness: the prioritisation step dropped an important index and a
\* source-mapped line was kept.
C16_Witness ==
  /\ pc = "selected"
  /\ max_lines >= 1
  /\ Overflows
  /\ Important \ RetainedIndices # {}
  /\ SourceIndices \cap RetainedIndices # {}


\* C17: in every output of the selector, an entry with isOmissionMarker =
\* true is a synthetic entry the selector created, never a line taken from
\* the input, and it carries neither a source nor a labels field.
C17_MarkersSynthetic ==
  Returned =>
    \A k \in DOMAIN selected_assembly :
      selected_assembly[k].isOmissionMarker = <<TRUE>> =>
        /\ origin[k] = -1
        /\ "source" \notin DOMAIN selected_assembly[k]
        /\ "labels" \notin DOMAIN selected_assembly[k]


\* C18: the selector reads only its arguments and keeps no state between
\* calls: no step of an invocation changes the input line list, the label
\* map or the budget of any call, and every invocation that interleaves with
\* another returns exactly the output it returns when run alone.
C18_Purity ==
  [][\A c \in Calls :
       /\ calls'[c].asm_array = calls[c].asm_array
       /\ calls'[c].label_definitions = calls[c].label_definitions
       /\ calls'[c].max_lines = calls[c].max_lines
       /\ calls'[c].pc = "done" =>
            calls'[c].result =
              SelectImportantAssembly(calls'[c].asm_array, calls'[c].label_definitions,
                                      calls'[c].max_lines)]_vars

\* C18 witness: one call returned a truncated listing while the other, on a
\* different input, was between its marking loops and its return.
C18_Witness ==
  /\ pc = "threads"
  /\ calls["t1"].pc = "done"
  /\ Len(calls["t1"].asm_array) > calls["t1"].max_lines
  /\ calls["t1"].result # calls["t1"].asm_array
  /\ frames["t1"].important_indices # {}
  /\ calls["t2"].pc = "emit"
  /\ calls["t2"].asm_array # calls["t1"].asm_array
  /\ frames["t2"].important_indices # {}
  /\ frames["t2"].important_indices # frames["t1"].important_indices


\* do the two responses agree in status, explanation, model, usage and cost
SameAnswer(a, b) ==
  /\ a.status = b.status
  /\ a.explanation = b.explanation
  /\ a.model = b.model
  /\ a.usage = b.usage
  /\ a.cost = b.cost

\* the calls of cache_response made before call i
StoresBefore(i) == {j \in 1..(i - 1) : history[j].op = "cache_response"}

KeysGenerated == Len(history) = 2 /\ history[1].op = "generate_cache_key"
FirstRequest == history[1].request
SecondRequest == history[2].request
FirstKey == history[1].result[1]
SecondKey == history[2].result[1]

\* the indices at which two listings of equal length differ in their text
TextDiffers(a, b) ==
  { i \in 0..(Len(a) - 1) : At(a, i).text # At(b, i).text }

\* the input indices the selector retains for a request that is truncated
KeptIndices(req) ==
  Select(AsmDicts(req), LabelDefinitionsOrEmpty(req), MAX_ASSEMBLY_LINES, "ascending").all

WithoutBypass(req) == [name \in DOMAIN req \ {"bypass_cache"} |-> req[name]]

C23_CacheErrorsContained ==
  \A i \in DOMAIN history :
    "outcome" \in DOMAIN history[i] =>
      /\ history[i].outcome = "returned"
      /\ history[i].op = "get_cached_response" => history[i].result = <<>>

\* C24: when the selector truncates, the important index set is exactly the
\* union of (a) i..min(i+4, len-1) for every label definition with a valid
\* index i, (b) every index whose line has a source mapping with a non-null
\* line number, 0 included, and (c) max(0, j-3)..j for every index j whose
\* trimmed text is ret, leave, pop rbp or starts with "ret "; other lines
\* contribute nothing.
C24_ImportantSet ==
  LET n == Len(asm_array)
      trimmed(j) == Strip(At(asm_array, j).text)
      epilogues == { j \in 0..(n - 1) :
                       \/ trimmed(j) \in {S_ret, S_leave, S_pop_rbp}
                       \/ StartsWith(trimmed(j), S_ret_sp) }
  IN  pc = "selected" =>
        important_indices =
          UNION { i..Min(i + 4, n - 1) : i \in ValidLabelIndices }
            \cup SourceIndices
            \cup UNION { Max(0, j - 3)..j : j \in epilogues }

\* a truncating call with a label block cut short by the end of the listing,
\* a source-mapped line outside it, and an epilogue line outside both, some
\* line staying unmarked
C24_Witness ==
  /\ pc = "selected"
  /\ \E i \in ValidLabelIndices : i + 4 > Len(asm_array) - 1
  /\ SourceIndices # {} /\ SourceIndices \cap LabelBlock(label_definitions[1][2], Len(asm_array)) = {}
  /\ \E j \in 0..(Len(asm_array) - 1) :
       /\ IsReturn(At(asm_array, j))
       /\ j \notin SourceIndices
       /\ j \notin LabelBlock(label_definitions[1][2], Len(asm_array))
  /\ important_indices # 0..(Len(asm_array) - 1)

\* C25: when len(lines) > budget and the union of the important set with its
\* context windows max(0, i-2)..min(len-1, i+2) has at most budget indices,
\* the retained index set is exactly that union: every important line and
\* every line within 2 of one appears in the output.
C25_ContextRetained ==
  LET n == Len(asm_array)
      union == important_indices
                 \cup UNION { Max(0, i - 2)..Min(n - 1, i + 2) : i \in important_indices }
  IN  (pc = "selected" /\ Cardinality(union) <= max_lines) =>
        /\ all_indices = union
        /\ RetainedIndices = union
        /\ \A i \in important_indices :
             \A j \in 0..(n - 1) :
               (j - i \in -2..2) => \E k \in LinePositions : origin[k] = j /\ IsInputLine(k)

\* a truncating call whose union fits the budget, with a window cut short
\* by the end of the listing, another important line further up, and context
\* lines that are not themselves important
C25_Witness ==
  /\ pc = "selected"
  /\ (Len(asm_array) - 1) \in important_indices
  /\ Cardinality(important_indices) = 2
  /\ Cardinality(RetainedIndices \ important_indices) >= 2
  /\ Cardinality(RetainedIndices) <= max_lines

\* C26: between two successive retained input indices a < b the output holds
\* exactly one omission marker, with stated count b - a - 1, when b > a + 1,
\* and no marker when b = a + 1: no omitted run between retained lines is
\* left unmarked, whatever the budget.
C26_InnerMarkers ==
  Returned =>
    \A j, k \in LinePositions :
      (j < k /\ \A m \in LinePositions : ~(j < m /\ m < k)) =>
        LET a == origin[j]
            b == origin[k]
        IN  /\ a < b
            /\ b = a + 1 => k = j + 1
            /\ b > a + 1 => /\ k = j + 2
                            /\ IsSyntheticMarker(j + 1)
                            /\ CountAt(j + 1) = b - a - 1

\* a truncated output with two adjacent retained lines and, further on, two
\* retained lines two or more indices apart with a marker between them
C26_Witness ==
  /\ pc = "selected"
  /\ \E j \in LinePositions :
       /\ (j + 1) \in LinePositions
       /\ origin[j + 1] = origin[j] + 1
  /\ \E j \in LinePositions :
       /\ (j + 1) \in MarkerPositions
       /\ (j + 2) \in LinePositions
       /\ origin[j + 2] > origin[j] + 2
       /\ Cardinality(RetainedIndices) = max_lines

\* C27: when at least one line is retained, the output ends with an omission
\* marker if and only if the last retained index is smaller than
\* len(lines) - 1, and the trailing marker's stated count is
\* len(lines) - 1 - (last retained index).
C27_TrailingMarker ==
  (Returned /\ RetainedIndices # {}) =>
    LET last == CHOOSE i \in RetainedIndices : \A j \in RetainedIndices : j <= i
        end == Len(selected_assembly)
    IN  /\ (end \in MarkerPositions) <=> (last < Len(asm_array) - 1)
        /\ (end \in MarkerPositions) =>
             /\ IsSyntheticMarker(end)
             /\ CountAt(end) = Len(asm_array) - 1 - last
             /\ (end - 1) \in LinePositions
             /\ origin[end - 1] = last

\* a truncated output ending with a marker for two or more lines
C27_Witness ==
  /\ pc = "selected"
  /\ RetainedIndices # {}
  /\ Len(selected_assembly) \in MarkerPositions
  /\ CountAt(Len(selected_assembly)) >= 2

\* C28: the output begins with an omission marker only when input index 0 is
\* not retained: if the first retained index is f > 0 the first entry is a
\* marker with stated count f, and if index 0 is retained the first entry is
\* input line 0 itself.
C28_LeadingMarker ==
  (Returned /\ RetainedIndices # {}) =>
    LET f == CHOOSE i \in RetainedIndices : \A j \in RetainedIndices : i <= j
    IN  /\ f > 0 => /\ IsSyntheticMarker(1)
                     /\ CountAt(1) = f
        /\ f = 0 => /\ 1 \in LinePositions
                     /\ origin[1] = 0
                     /\ IsInputLine(1)

\* C29: whenever len(lines) > budget with budget >= 0, the output holds at
\* most budget original (non-marker) lines; only omission markers can make
\* the output longer than budget.
C29_LinesWithinBudget ==
  (pc = "selected" /\ max_lines >= 0) =>
    /\ Cardinality(LinePositions) <= max_lines
    /\ Cardinality(RetainedIndices) = Cardinality(LinePositions)
    /\ \A k \in DOMAIN selected_assembly :
         k \notin LinePositions => IsSyntheticMarker(k)

\* a truncating call whose important lines with their context exceed the
\* budget, whose output holds exactly budget original lines and, with its
\* markers, more than budget entries
C29_Witness ==
  /\ pc = "selected"
  /\ max_lines >= 1
  /\ Cardinality(ImportantWithContext) > max_lines
  /\ Cardinality(LinePositions) = max_lines
  /\ Len(selected_assembly) > max_lines

\* C30: the module function select_important_assembly of explain.py and the
\* method Prompt.select_important_assembly of prompt.py return identical
\* outputs for every identical (lines, labelDefinitions, budget) input.
C30_CopiesAgree ==
  \A i \in DOMAIN history :
    history[i].op = "select_important_assembly" =>
      /\ Returned
      /\ history[i].result = selected_assembly

\* both copies called on a truncated listing holding a mapping with a line
\* number and a mapping without one
C30_Witness ==
  /\ pc = "selected"
  /\ history # <<>>
  /\ history[1].op = "select_important_assembly"
  /\ SourceIndices # {}
  /\ \E k \in DOMAIN asm_array :
       asm_array[k].source # <<>> /\ asm_array[k].source[1].line = <<>>

=============================================================================
